---- MODULE Spec2Model ----
(***************************************************************************)
(* A model of fileChunk: the Rabin fingerprint (rolling_hash.rs, with the  *)
(* modular arithmetic of bigmath.rs), the in-flight Chunk and the Chunker  *)
(* that archives a list of files into chunk blobs plus a manifest, and the *)
(* restore of one file from the manifest (chunkstream.rs).                 *)
(*                                                                         *)
(* u64 values.  PRIME is 2^40 + 15, beyond the integers TLC computes with, *)
(* so a u64 is a pair <<hi, lo>> of 20-bit limbs standing for              *)
(* hi * 2^20 + lo, with 0 <= lo < 2^20.  Every fingerprint value is kept   *)
(* reduced (below PRIME), so equal pairs are equal numbers.  No            *)
(* intermediate of the code reaches 2^64 (the largest is below 2^49), so   *)
(* the limb arithmetic below is exactly the code's u64 arithmetic.         *)
(***************************************************************************)
EXTENDS Integers, Sequences, FiniteSets, TLC

\* ------------------------------------------------------------------------
\* u64 arithmetic on limb pairs
\* ------------------------------------------------------------------------

Limb == 1024 * 1024

U64(n) == <<n \div Limb, n % Limb>>

\* const PRIME: u64 = 1_099_511_627_791  (= 2^40 + 15 = Limb * Limb + 15)
PRIME == <<Limb, 15>>

\* const WINDOW_SIZE: usize = 64
WINDOW_SIZE == 64

\* const CHUNK_MODULUS: u64 = 1024 * 1024 * 10
CHUNK_MODULUS == 1024 * 1024 * 10

U64Less(a, b) == a[1] < b[1] \/ (a[1] = b[1] /\ a[2] < b[2])

U64Add(a, b) ==
    LET lo == a[2] + b[2]
    IN  <<a[1] + b[1] + (lo \div Limb), lo % Limb>>

\* a - b for a >= b
U64Sub(a, b) ==
    IF a[2] >= b[2] THEN <<a[1] - b[1], a[2] - b[2]>>
    ELSE <<a[1] - b[1] - 1, a[2] + Limb - b[2]>>

\* v * m + a for a small factor m (at most 1024) and a small addend a
U64MulAdd(v, m, a) ==
    LET t == v[2] * m + a
    IN  <<v[1] * m + (t \div Limb), t % Limb>>

\* x % PRIME.  With x = q * 2^40 + r (r < 2^40), x = q * PRIME + (r - 15 * q).
ModPrime(x) ==
    LET q == x[1] \div Limb
        r == <<x[1] % Limb, x[2]>>
        c == <<0, 15 * q>>
    IN  IF U64Less(r, c) THEN U64Sub(U64Add(r, PRIME), c) ELSE U64Sub(r, c)

\* v % m == 0 for a modulus m that is a multiple of 2^20 (CHUNK_MODULUS is)
U64DivisibleBy(v, m) == v[2] = 0 /\ v[1] % (m \div Limb) = 0

\* bigmath.rs multiply_mod: ((a % m) as u128 * (b % m) as u128) % m, for
\* m = PRIME.  The 128-bit product is taken 10 bits of b at a time (Horner),
\* reducing after every step: the same number as the wide product reduced.
multiply_mod(a, b) ==
    LET am == ModPrime(a)
        bm == ModPrime(b)
        d3 == bm[1] \div 1024
        d2 == bm[1] % 1024
        d1 == bm[2] \div 1024
        d0 == bm[2] % 1024
        Step(acc, d) == ModPrime(U64Add(ModPrime(U64MulAdd(acc, 1024, 0)),
                                        ModPrime(U64MulAdd(am, d, 0))))
    IN  Step(Step(Step(Step(<<0, 0>>, d3), d2), d1), d0)

\* bigmath.rs mod_pow's loop: while exp > 0 { ... }.  (The next values of
\* result and base are bound by \in, which has TLC compute them before the
\* next iteration instead of nesting the deferred computations.)
RECURSIVE ModPowLoop(_, _, _)
ModPowLoop(result, base, exp) ==
    IF exp > 0
    THEN CHOOSE out \in
            { ModPowLoop(r, b, exp \div 2) :
                r \in {IF exp % 2 = 1 THEN multiply_mod(result, base) ELSE result},
                b \in {multiply_mod(base, base)} } : TRUE
    ELSE result

\* bigmath.rs mod_pow(base, exp, PRIME); the modulus == 1 early return never
\* applies to PRIME.
mod_pow(base, exp) == ModPowLoop(<<0, 1>>, ModPrime(base), exp)

\* ------------------------------------------------------------------------
\* RabinFingerprint
\* ------------------------------------------------------------------------

FingerprintBase == mod_pow(U64(256), WINDOW_SIZE)

\* RabinFingerprint::new
RabinFingerprintNew == [value |-> <<0, 0>>, base |-> FingerprintBase]

\* A push without the reduction modulo PRIME
push_byte_unreduced(fp, byte) ==
    [fp EXCEPT !.value = U64MulAdd(fp.value, 256, byte)]

\* value = (value * 256 + byte) % PRIME
push_byte(fp, byte) ==
    [fp EXCEPT !.value = ModPrime(U64MulAdd(fp.value, 256, byte))]

\* value = (value + PRIME - (base * byte % PRIME)) % PRIME
pop_byte(fp, byte) ==
    [fp EXCEPT !.value =
        ModPrime(U64Sub(U64Add(fp.value, PRIME),
                        ModPrime(U64MulAdd(fp.base, byte, 0))))]

roll_byte(fp, old_byte, new_byte) == push_byte(pop_byte(fp, old_byte), new_byte)

\* The u64 intermediates of push_byte and pop_byte, before their % PRIME:
\* self.value * 256 + byte; self.base * byte; self.value + PRIME
PushWide(fp, byte) == U64MulAdd(fp.value, 256, byte)
PopProduct(fp, byte) == U64MulAdd(fp.base, byte, 0)
PopSum(fp) == U64Add(fp.value, PRIME)

\* u64::to_string: the decimal digits, most significant first ("0" for 0)
RECURSIVE U64Digits(_)
U64Digits(v) ==
    LET qh == v[1] \div 10
        t  == (v[1] % 10) * Limb + v[2]
        q  == <<qh, t \div 10>>
    IN  IF q = <<0, 0>> THEN <<t % 10>> ELSE Append(U64Digits(q), t % 10)

to_string(v) == U64Digits(v)

\* fingerprint.value() % CHUNK_MODULUS == 0
AtBoundary(fp) == U64DivisibleBy(fp.value, CHUNK_MODULUS)

\* ------------------------------------------------------------------------
\* Chunk
\* ------------------------------------------------------------------------

\* Chunk::new
ChunkNew ==
    [current_offset |-> 0,
     buffer         |-> <<>>,
     base           |-> [files |-> <<>>, fingerprint |-> RabinFingerprintNew]]

\* A push of the ChunkFile that leaves current_offset as it was
PushChunkFileKeepOffset(self, file, written) ==
    [self EXCEPT
        !.base.files = Append(@, [filename |-> file,
                                  name     |-> to_string(self.base.fingerprint.value),
                                  start    |-> self.current_offset,
                                  end      |-> self.current_offset + written])]

\* The tail of both exits of add_file: current_offset += written, then push
\* ChunkFile { filename, name: fingerprint.value().to_string(), start, end }
PushChunkFile(self, file, written) ==
    LET offset == self.current_offset + written
    IN  [self EXCEPT
            !.current_offset = offset,
            !.base.files = Append(@, [filename |-> file,
                                      name     |-> to_string(self.base.fingerprint.value),
                                      start    |-> offset - written,
                                      end      |-> offset])]

\* The byte loop of Chunk::add_file: for _ in 0..bytes.len() { pop_front,
\* buffer.push, push_byte, written += 1, return on a boundary }
RECURSIVE AddFileLoop(_, _, _, _)
AddFileLoop(self, file, vec_dq_bytes, written) ==
    IF vec_dq_bytes = <<>>
    THEN [chunk |-> PushChunkFile(self, file, written), rest |-> <<>>]
    ELSE LET byte == Head(vec_dq_bytes)
             pushed == [self EXCEPT
                          !.buffer = Append(@, byte),
                          !.base.fingerprint = push_byte(@, byte)]
         IN  IF AtBoundary(pushed.base.fingerprint)
             THEN [chunk |-> PushChunkFile(pushed, file, written + 1),
                   rest  |-> Tail(vec_dq_bytes)]
             ELSE AddFileLoop(pushed, file, Tail(vec_dq_bytes), written + 1)

\* An add_file that hands back all of its input
add_file_returns_input(self, file, bytes) ==
    [chunk |-> AddFileLoop(self, file, bytes, 0).chunk, rest |-> bytes]

\* Chunk::add_file(&mut self, file, bytes) -> Vec<u8>: the chunk afterwards
\* and the returned bytes
add_file(self, file, bytes) == AddFileLoop(self, file, bytes, 0)

\* Chunk::repair: with two or more files, the loop over 0..files.len()
\* assigns files[0].name each time
repair(self) ==
    IF Len(self.base.files) <= 1
    THEN self
    ELSE [self EXCEPT !.base.files[1].name = to_string(self.base.fingerprint.value)]

\* The blob's file name in Chunk::save: "{}.chunk" of fingerprint.value()
ChunkFileName(self) == to_string(self.base.fingerprint.value)

\* Chunk::save on the blob directory (file name -> payload): an existing
\* file is left as it is.  The payload stands for the Snappy frame of the
\* buffer, which FrameDecoder turns back into the buffer.
save(self, dir) ==
    IF ChunkFileName(self) \in DOMAIN dir
    THEN dir
    ELSE (ChunkFileName(self) :> self.buffer) @@ dir

\* ------------------------------------------------------------------------
\* Chunker
\* ------------------------------------------------------------------------

\* Paths are numbered in their lexicographic order (path i sorts before path
\* j iff i < j); they hold no backslash and no leading "./", so replace and
\* trim_start_matches leave them as they are.

\* blake3::hash(..).to_hex(): a digest that tells any two contents apart
blake3_hash(bytes) == <<"blake3", bytes>>

\* A sort that leaves the list in the order given
sort_identity(v) == v

\* paths.sort_unstable(): insertion of the head into the sorted tail
RECURSIVE sort_unstable(_)
sort_unstable(v) ==
    IF v = <<>> THEN <<>>
    ELSE LET rest == sort_unstable(Tail(v))
             less == SelectSeq(rest, LAMBDA e : e < Head(v))
             more == SelectSeq(rest, LAMBDA e : ~(e < Head(v)))
         IN  less \o <<Head(v)>> \o more

\* HashMap::insert
MapInsert(map, key, value) == [k \in DOMAIN map \cup {key} |->
                                  IF k = key THEN value ELSE map[k]]

\* Chunker::update_restore_info_for_file: push chunk.base onto bases[file.filename]
update_restore_info_for_file(bases, file, chunk) ==
    IF file.filename \in DOMAIN bases
    THEN MapInsert(bases, file.filename, Append(bases[file.filename], chunk.base))
    ELSE MapInsert(bases, file.filename, <<chunk.base>>)

\* Chunker::update_restore_info: one update_restore_info_for_file per entry
\* of chunk.base.files, in order.  (With more than one entry the code passes
\* a clone renamed to the last entry's name; update_restore_info_for_file
\* reads only its filename and stores chunk.base, so the rename is dropped.)
RECURSIVE UpdateRestoreInfoFrom(_, _, _)
UpdateRestoreInfoFrom(bases, chunk, i) ==
    IF i > Len(chunk.base.files) THEN bases
    ELSE UpdateRestoreInfoFrom(
            update_restore_info_for_file(bases, chunk.base.files[i], chunk), chunk, i + 1)

update_restore_info(bases, chunk) == UpdateRestoreInfoFrom(bases, chunk, 1)

\* IndexMap::insert: a present key keeps its place and takes the new value,
\* a new key goes to the end.  An IndexMap is a sequence of [key, value].
IndexMapInsert(map, key, value) ==
    IF \E i \in 1..Len(map) : map[i].key = key
    THEN [i \in 1..Len(map) |->
            IF map[i].key = key THEN [key |-> key, value |-> value] ELSE map[i]]
    ELSE Append(map, [key |-> key, value |-> value])

\* dump_restore_info's inner loops for one filename: over its bases, over
\* each base's files, skipping the entries of other files
RECURSIVE FileMapFrom(_, _, _, _, _)
FileMapFrom(file_map, filename, file_bases, b, f) ==
    IF b > Len(file_bases) THEN file_map
    ELSE IF f > Len(file_bases[b].files)
         THEN FileMapFrom(file_map, filename, file_bases, b + 1, 1)
         ELSE LET chunk_file == file_bases[b].files[f]
              IN  IF chunk_file.filename # filename
                  THEN FileMapFrom(file_map, filename, file_bases, b, f + 1)
                  ELSE FileMapFrom(
                          IndexMapInsert(file_map, chunk_file.name,
                                         [start |-> chunk_file.start,
                                          end   |-> chunk_file.end]),
                          filename, file_bases, b, f + 1)

\* Chunker::dump_restore_info: the RestoreInformation written as
\* restore_info.yaml (serde_yaml writes and reads back the same three maps)
dump_restore_info(bases, hash_to_path, path_to_hash) ==
    [files      |-> [filename \in DOMAIN bases |->
                        FileMapFrom(<<>>, filename, bases[filename], 1, 1)],
     hashes     |-> path_to_hash,
     duplicates |-> [h \in {k \in DOMAIN hash_to_path : Len(hash_to_path[k]) > 1} |->
                        hash_to_path[h]]]

\* The seal in add_files: chunk.repair(); self.update_restore_info(&chunk);
\* chunk.save(output_path)
SealBases(bases, chunk) == update_restore_info(bases, repair(chunk))
SealBlobs(dir, chunk)   == save(repair(chunk), dir)

\* ------------------------------------------------------------------------
\* Chunker::restore_file
\* ------------------------------------------------------------------------

\* The match on restore_info.files.get(&filename): the IndexMap to restore
\* from, or a panic of one of the unwraps
ResolveFileMap(restore_info, filename) ==
    IF filename \in DOMAIN restore_info.files
    THEN [ok |-> TRUE, file_map |-> restore_info.files[filename]]
    ELSE IF filename \notin DOMAIN restore_info.hashes
    THEN [ok |-> FALSE, file_map |-> <<>>]
    ELSE LET key == restore_info.hashes[filename]
         IN  IF key \notin DOMAIN restore_info.duplicates
             THEN [ok |-> FALSE, file_map |-> <<>>]
             ELSE LET ri_key == Head(restore_info.duplicates[key])
                  IN  IF ri_key \in DOMAIN restore_info.files
                      THEN [ok |-> TRUE, file_map |-> restore_info.files[ri_key]]
                      ELSE [ok |-> FALSE, file_map |-> <<>>]

\* The loop over file_map: read the chunk, decompress, slice start..end,
\* write_all.  What is in the output file when the loop ends or panics (a
\* missing chunk file, a range that is not within the payload).
RECURSIVE RestoreLoop(_, _, _, _)
RestoreLoop(written, file_map, dir, i) ==
    IF i > Len(file_map) THEN [ok |-> TRUE, bytes |-> written]
    ELSE LET chunk_name == file_map[i].key
             start_end  == file_map[i].value
         IN  IF chunk_name \notin DOMAIN dir
             THEN [ok |-> FALSE, bytes |-> written]
             ELSE IF start_end.start > start_end.end
                     \/ start_end.end > Len(dir[chunk_name])
             THEN [ok |-> FALSE, bytes |-> written]
             ELSE RestoreLoop(
                     written \o SubSeq(dir[chunk_name], start_end.start + 1, start_end.end),
                     file_map, dir, i + 1)

\* Chunker::restore_file against a data directory (its manifest, if one was
\* written, and its blobs): the output file is created empty first, then
\* the manifest is read and resolved, then the ranges are written.
restore_file(filename, has_manifest, restore_info, dir) ==
    IF ~has_manifest THEN [ok |-> FALSE, bytes |-> <<>>]
    ELSE LET resolved == ResolveFileMap(restore_info, filename)
         IN  IF ~resolved.ok THEN [ok |-> FALSE, bytes |-> <<>>]
             ELSE RestoreLoop(<<>>, resolved.file_map, dir, 1)

\* ------------------------------------------------------------------------
\* The archive run (Chunker::add_files) and restores, as a state machine
\* ------------------------------------------------------------------------

\* Bounds of the model: the number of input files and the bytes they hold in
\* all, for the specification Spec (more files: chunks of three segments,
\* duplicates) and for SpecLong (fewer, longer files: a boundary inside a
\* file, fingerprints that wrap around PRIME).
MaxFiles == 3
MaxTotal == 4
LongFiles == 2
LongTotal == 7

\* The byte values the input files are made of.  0 seals a fresh chunk at
\* once (the fingerprint stays 0); 15, 0, 0, 0 is the shortest other run
\* that ends on a boundary (15 * 2^24 = 24 * CHUNK_MODULUS); 1, 0, 0, 0, 0, 15
\* is PRIME itself, whose fingerprint wraps to 0.
Bytes == {0, 1, 15}

ByteSeqsUpTo(n) == UNION { [1..k -> Bytes] : k \in 0..n }

\* The contents of files 1..n holding at most budget bytes in all
RECURSIVE Disks(_, _)
Disks(n, budget) ==
    IF n = 0 THEN { <<>> }
    ELSE UNION { { Append(d, s) : d \in Disks(n - 1, budget - Len(s)) } :
                 s \in ByteSeqsUpTo(budget) }

\* The orders in which the caller may list paths 1..n
PathLists(n) == { v \in [1..n -> 1..n] : \A i, j \in 1..n : v[i] = v[j] => i = j }

VARIABLES
    pc,                 \* where add_files is: "start", "loop" (top of the for
                        \* loop), "while" (the while loop), "done", "panicked"
    disk,               \* the input files: path -> content
    paths,              \* add_files' paths
    idx,                \* the for loop's position in paths
    chunk,              \* add_files' chunk
    remaining_bytes,    \* add_files' remaining_bytes
    last_file,          \* add_files' last_file (0 for the empty string)
    bases,              \* Chunker.bases
    hash_to_path_map,   \* Chunker.hash_to_path_map
    path_to_hash_map,   \* Chunker.path_to_hash_map
    blobs,              \* output_path's chunk files: name -> payload
    saved,              \* every call of Chunk::save so far: [name, buffer]
    has_manifest,       \* restore_info.yaml was written
    manifest,           \* its RestoreInformation
    out,                \* the restore directory: path -> content
    restored,           \* the restore_file calls made: path -> returned normally
    roll_data,          \* the rolling-law run: the byte sequence d
    roll_fp,            \* the rolling-law run: its RabinFingerprint
    roll_pos,           \* the rolling-law run: the bytes of d taken so far
    call                \* the last Chunk::add_file call: the chunk it was made
                        \* on and its arguments file and bytes

archive_vars == <<pc, disk, paths, idx, chunk, remaining_bytes, last_file, bases,
                  hash_to_path_map, path_to_hash_map, blobs, saved, has_manifest,
                  manifest, out, restored>>

roll_vars == <<roll_data, roll_fp, roll_pos>>

vars == <<archive_vars, roll_vars, call>>

EmptyMap == [k \in {} |-> 0]

NoManifest == [files |-> EmptyMap, hashes |-> EmptyMap, duplicates |-> EmptyMap]

\* No add_file call was made yet (no call has the file name 0)
NoCall == [chunk |-> ChunkNew, file |-> 0, bytes |-> <<>>]

\* Chunker::new and the files a caller hands to add_files
InitWith(maxFiles, maxTotal) ==
    /\ pc = "start"
    /\ \E n \in 0..maxFiles :
          /\ disk \in Disks(n, maxTotal)
          /\ paths \in PathLists(n)
    /\ idx = 1
    /\ chunk = ChunkNew
    /\ remaining_bytes = <<>>
    /\ last_file = 0
    /\ bases = EmptyMap
    /\ hash_to_path_map = EmptyMap
    /\ path_to_hash_map = EmptyMap
    /\ blobs = EmptyMap
    /\ saved = {}
    /\ has_manifest = FALSE
    /\ manifest = NoManifest
    /\ out = EmptyMap
    /\ restored = EmptyMap
    /\ roll_data = <<>>
    /\ roll_fp = RabinFingerprintNew
    /\ roll_pos = 0
    /\ call = NoCall

Init == InitWith(MaxFiles, MaxTotal)

InitLong == InitWith(LongFiles, LongTotal)

\* add_files up to the for loop: paths.sort_unstable(), Chunk::new(), vec![]
SortPaths ==
    /\ pc = "start"
    /\ paths' = sort_unstable(paths)
    /\ chunk' = ChunkNew
    /\ remaining_bytes' = <<>>
    /\ last_file' = 0
    /\ idx' = 1
    /\ pc' = "loop"
    /\ UNCHANGED <<disk, bases, hash_to_path_map, path_to_hash_map, blobs, saved,
                   has_manifest, manifest, out, restored>>
    /\ UNCHANGED <<roll_vars, call>>

\* The for loop's next path, its content not seen before: fs::read, the hash,
\* the None arm of the match; on to the while loop
ReadNewFile ==
    /\ pc = "loop"
    /\ idx <= Len(paths)
    /\ LET path == paths[idx]
           file_hash_blake == blake3_hash(disk[path])
       IN  /\ file_hash_blake \notin DOMAIN hash_to_path_map
           /\ remaining_bytes' = disk[path]
           /\ hash_to_path_map' = MapInsert(hash_to_path_map, file_hash_blake, <<path>>)
           /\ path_to_hash_map' = MapInsert(path_to_hash_map, path, file_hash_blake)
    /\ pc' = "while"
    /\ UNCHANGED <<disk, paths, idx, chunk, last_file, bases, blobs, saved,
                   has_manifest, manifest, out, restored>>
    /\ UNCHANGED <<roll_vars, call>>

\* The for loop's next path, its content seen before: fs::read, the hash,
\* the Some arm of the match and its continue (remaining_bytes keeps what
\* was read)
SkipDuplicate ==
    /\ pc = "loop"
    /\ idx <= Len(paths)
    /\ LET path == paths[idx]
           file_hash_blake == blake3_hash(disk[path])
       IN  /\ file_hash_blake \in DOMAIN hash_to_path_map
           /\ remaining_bytes' = disk[path]
           /\ hash_to_path_map' = MapInsert(hash_to_path_map, file_hash_blake,
                                            Append(hash_to_path_map[file_hash_blake], path))
           /\ path_to_hash_map' = MapInsert(path_to_hash_map, path, file_hash_blake)
    /\ idx' = idx + 1
    /\ UNCHANGED <<pc, disk, paths, chunk, last_file, bases, blobs, saved,
                   has_manifest, manifest, out, restored>>
    /\ UNCHANGED <<roll_vars, call>>

\* One turn of the while loop in which add_file stops on a boundary: the
\* chunk is repaired, recorded, saved and replaced
AddFileAndSeal ==
    /\ pc = "while"
    /\ remaining_bytes # <<>>
    /\ LET r == add_file(chunk, paths[idx], remaining_bytes)
       IN  /\ AtBoundary(r.chunk.base.fingerprint)
           /\ remaining_bytes' = r.rest
           /\ bases' = SealBases(bases, r.chunk)
           /\ blobs' = SealBlobs(blobs, r.chunk)
           /\ saved' = saved \cup {[name   |-> ChunkFileName(repair(r.chunk)),
                                    buffer |-> repair(r.chunk).buffer]}
           /\ chunk' = ChunkNew
    /\ UNCHANGED <<pc, disk, paths, idx, last_file, hash_to_path_map,
                   path_to_hash_map, has_manifest, manifest, out, restored>>
    /\ call' = [chunk |-> chunk, file |-> paths[idx], bytes |-> remaining_bytes]
    /\ UNCHANGED roll_vars

\* A turn of the while loop that keeps the chunk whether or not add_file
\* stopped on a boundary
AddFileNeverSeals ==
    /\ pc = "while"
    /\ remaining_bytes # <<>>
    /\ LET r == add_file(chunk, paths[idx], remaining_bytes)
       IN  /\ remaining_bytes' = r.rest
           /\ chunk' = r.chunk
    /\ UNCHANGED <<pc, disk, paths, idx, last_file, bases, hash_to_path_map,
                   path_to_hash_map, blobs, saved, has_manifest, manifest, out,
                   restored>>
    /\ call' = [chunk |-> chunk, file |-> paths[idx], bytes |-> remaining_bytes]
    /\ UNCHANGED roll_vars

\* One turn of the while loop in which add_file takes all the bytes without
\* a boundary
AddFileNoSeal ==
    /\ pc = "while"
    /\ remaining_bytes # <<>>
    /\ LET r == add_file(chunk, paths[idx], remaining_bytes)
       IN  /\ ~AtBoundary(r.chunk.base.fingerprint)
           /\ remaining_bytes' = r.rest
           /\ chunk' = r.chunk
    /\ UNCHANGED <<pc, disk, paths, idx, last_file, bases, hash_to_path_map,
                   path_to_hash_map, blobs, saved, has_manifest, manifest, out,
                   restored>>
    /\ call' = [chunk |-> chunk, file |-> paths[idx], bytes |-> remaining_bytes]
    /\ UNCHANGED roll_vars

\* The while loop ends: last_file = path, and the for loop goes on
EndWhile ==
    /\ pc = "while"
    /\ remaining_bytes = <<>>
    /\ last_file' = paths[idx]
    /\ idx' = idx + 1
    /\ pc' = "loop"
    /\ UNCHANGED <<disk, paths, chunk, remaining_bytes, bases, hash_to_path_map,
                   path_to_hash_map, blobs, saved, has_manifest, manifest, out,
                   restored>>
    /\ UNCHANGED <<roll_vars, call>>

\* After the for loop: assert!(remaining_bytes.is_empty()) fails
AssertFails ==
    /\ pc = "loop"
    /\ idx > Len(paths)
    /\ remaining_bytes # <<>>
    /\ pc' = "panicked"
    /\ UNCHANGED <<disk, paths, idx, chunk, remaining_bytes, last_file, bases,
                   hash_to_path_map, path_to_hash_map, blobs, saved, has_manifest,
                   manifest, out, restored>>
    /\ UNCHANGED <<roll_vars, call>>

\* After the for loop, the assertion holding: the last chunk, if it holds
\* bytes, is repaired, recorded and saved; then dump_restore_info
Finish ==
    /\ pc = "loop"
    /\ idx > Len(paths)
    /\ remaining_bytes = <<>>
    /\ LET last == chunk.buffer # <<>>
           final_bases == IF last THEN SealBases(bases, chunk) ELSE bases
       IN  /\ bases' = final_bases
           /\ blobs' = IF last THEN SealBlobs(blobs, chunk) ELSE blobs
           /\ saved' = IF last
                       THEN saved \cup {[name   |-> ChunkFileName(repair(chunk)),
                                         buffer |-> repair(chunk).buffer]}
                       ELSE saved
           /\ chunk' = IF last THEN repair(chunk) ELSE chunk
           /\ manifest' = dump_restore_info(final_bases, hash_to_path_map,
                                            path_to_hash_map)
    /\ has_manifest' = TRUE
    /\ pc' = "done"
    /\ UNCHANGED <<disk, paths, idx, remaining_bytes, last_file, hash_to_path_map,
                   path_to_hash_map, out, restored>>
    /\ UNCHANGED <<roll_vars, call>>

\* A restore_file call for one path once add_files has ended: what it left
\* in the output file, and whether it returned or panicked
RestoreFile(filename) ==
    /\ pc \in {"done", "panicked"}
    /\ LET r == restore_file(filename, has_manifest, manifest, blobs)
       IN  /\ out' = MapInsert(out, filename, r.bytes)
           /\ restored' = MapInsert(restored, filename, r.ok)
    /\ UNCHANGED <<pc, disk, paths, idx, chunk, remaining_bytes, last_file, bases,
                   hash_to_path_map, path_to_hash_map, blobs, saved, has_manifest,
                   manifest>>
    /\ UNCHANGED <<roll_vars, call>>

Next ==
    \/ SortPaths
    \/ ReadNewFile
    \/ SkipDuplicate
    \/ AddFileAndSeal
    \/ AddFileNoSeal
    \/ EndWhile
    \/ AssertFails
    \/ Finish
    \/ \E filename \in 1..MaxFiles : RestoreFile(filename)

Spec == Init /\ [][Next]_vars

SpecLong == InitLong /\ [][Next]_vars

\* restore_info.yaml is a file in data_path that restore_file reads anew on
\* every call, so it may have been edited by hand since add_files wrote it.
\* The edit modelled, made before any restore: the files entry of path p is
\* put under path q, a path of the same content hash that has none.
MoveFilesEntry(p, q) ==
    /\ pc = "done"
    /\ has_manifest
    /\ restored = EmptyMap
    /\ p \in DOMAIN manifest.files
    /\ q \in DOMAIN manifest.hashes \ DOMAIN manifest.files
    /\ p \in DOMAIN manifest.hashes
    /\ manifest.hashes[p] = manifest.hashes[q]
    /\ manifest' = [manifest EXCEPT
                      !.files = [k \in (DOMAIN manifest.files \ {p}) \cup {q} |->
                                    IF k = q THEN manifest.files[p]
                                    ELSE manifest.files[k]]]
    /\ UNCHANGED <<pc, disk, paths, idx, chunk, remaining_bytes, last_file, bases,
                   hash_to_path_map, path_to_hash_map, blobs, saved, has_manifest,
                   out, restored>>
    /\ UNCHANGED <<roll_vars, call>>

NextEdited ==
    \/ Next
    \/ \E p, q \in 1..MaxFiles : MoveFilesEntry(p, q)

\* Archive runs whose manifest may be edited before the restores
SpecEdited == Init /\ [][NextEdited]_vars

\* ------------------------------------------------------------------------
\* Chunker::add_files as a function of the files and the path list, for
\* comparing runs: [panicked, sealed, blobs, has_manifest, manifest], where
\* sealed is the sequence of the chunks passed to save
\* ------------------------------------------------------------------------

\* The while loop of add_files for one path, on the record st of add_files'
\* locals and the Chunker's fields
RECURSIVE AddFilesWhile(_, _)
AddFilesWhile(st, path) ==
    IF st.remaining_bytes = <<>> THEN st
    ELSE LET r == add_file(st.chunk, path, st.remaining_bytes)
         IN  IF AtBoundary(r.chunk.base.fingerprint)
             THEN AddFilesWhile(
                     [st EXCEPT !.remaining_bytes = r.rest,
                                !.bases = SealBases(@, r.chunk),
                                !.blobs = SealBlobs(@, r.chunk),
                                !.sealed = Append(@, [name   |-> ChunkFileName(repair(r.chunk)),
                                                      buffer |-> repair(r.chunk).buffer]),
                                !.chunk = ChunkNew],
                     path)
             ELSE AddFilesWhile([st EXCEPT !.remaining_bytes = r.rest,
                                           !.chunk = r.chunk],
                                path)

\* The for loop of add_files from position i of the sorted paths
RECURSIVE AddFilesFor(_, _, _, _)
AddFilesFor(st, files, sorted, i) ==
    IF i > Len(sorted) THEN st
    ELSE LET path == sorted[i]
             file_hash_blake == blake3_hash(files[path])
             read == [st EXCEPT !.remaining_bytes = files[path],
                                !.path_to_hash_map = MapInsert(@, path, file_hash_blake)]
         IN  IF file_hash_blake \in DOMAIN st.hash_to_path_map
             THEN AddFilesFor(
                     [read EXCEPT !.hash_to_path_map =
                         MapInsert(@, file_hash_blake,
                                   Append(st.hash_to_path_map[file_hash_blake], path))],
                     files, sorted, i + 1)
             ELSE AddFilesFor(
                     AddFilesWhile(
                        [read EXCEPT !.hash_to_path_map =
                            MapInsert(@, file_hash_blake, <<path>>)],
                        path),
                     files, sorted, i + 1)

add_files(files, given_paths) ==
    LET st == AddFilesFor([chunk            |-> ChunkNew,
                           remaining_bytes  |-> <<>>,
                           bases            |-> EmptyMap,
                           hash_to_path_map |-> EmptyMap,
                           path_to_hash_map |-> EmptyMap,
                           blobs            |-> EmptyMap,
                           sealed           |-> <<>>],
                          files, sort_unstable(given_paths), 1)
        last == st.chunk.buffer # <<>>
        final_bases == IF last THEN SealBases(st.bases, st.chunk) ELSE st.bases
    IN  IF st.remaining_bytes # <<>>
        THEN [panicked     |-> TRUE,
              sealed       |-> st.sealed,
              blobs        |-> st.blobs,
              has_manifest |-> FALSE,
              manifest     |-> NoManifest]
        ELSE [panicked     |-> FALSE,
              sealed       |-> IF last
                               THEN Append(st.sealed,
                                           [name   |-> ChunkFileName(repair(st.chunk)),
                                            buffer |-> repair(st.chunk).buffer])
                               ELSE st.sealed,
              blobs        |-> IF last THEN SealBlobs(st.blobs, st.chunk) ELSE st.blobs,
              has_manifest |-> TRUE,
              manifest     |-> dump_restore_info(final_bases, st.hash_to_path_map,
                                                 st.path_to_hash_map)]

\* ------------------------------------------------------------------------
\* The rolling law's run: push_byte over the first WINDOW_SIZE bytes of a
\* byte sequence, then roll_byte(d[i], d[i + WINDOW_SIZE]) along the rest
\* (the loop of rolling_hash.rs's test)
\* ------------------------------------------------------------------------

\* Bound of the rolling run: the bytes after the first window
MaxRolls == 2

RollBytes == {0, 1, 255}

\* The byte sequences of length n rolled over: one byte value throughout,
\* but for at most one place that holds another
RollInputs(n) ==
    { [i \in 1..n |-> IF i = k THEN b ELSE fill] :
        fill \in RollBytes, k \in 0..n, b \in RollBytes }

InitRoll ==
    /\ pc = "start"
    /\ disk = <<>>
    /\ paths = <<>>
    /\ idx = 1
    /\ chunk = ChunkNew
    /\ remaining_bytes = <<>>
    /\ last_file = 0
    /\ bases = EmptyMap
    /\ hash_to_path_map = EmptyMap
    /\ path_to_hash_map = EmptyMap
    /\ blobs = EmptyMap
    /\ saved = {}
    /\ has_manifest = FALSE
    /\ manifest = NoManifest
    /\ out = EmptyMap
    /\ restored = EmptyMap
    /\ \E n \in WINDOW_SIZE..(WINDOW_SIZE + MaxRolls) : roll_data \in RollInputs(n)
    /\ roll_fp = RabinFingerprintNew
    /\ roll_pos = 0
    /\ call = NoCall

\* fingerprint.push_byte(byte) for the bytes of the first window
RollPush ==
    /\ roll_pos < WINDOW_SIZE
    /\ roll_pos < Len(roll_data)
    /\ roll_fp' = push_byte(roll_fp, roll_data[roll_pos + 1])
    /\ roll_pos' = roll_pos + 1
    /\ UNCHANGED <<roll_data, archive_vars, call>>

\* fingerprint.roll_byte(data[i], data[i + WINDOW_SIZE])
RollRoll ==
    /\ roll_pos >= WINDOW_SIZE
    /\ roll_pos < Len(roll_data)
    /\ roll_fp' = roll_byte(roll_fp, roll_data[roll_pos + 1 - WINDOW_SIZE],
                            roll_data[roll_pos + 1])
    /\ roll_pos' = roll_pos + 1
    /\ UNCHANGED <<roll_data, archive_vars, call>>

NextRoll == RollPush \/ RollRoll

SpecRoll == InitRoll /\ [][NextRoll]_vars

\* A fresh RabinFingerprint on which the bytes of s were pushed, from s[i] on
RECURSIVE PushAllFrom(_, _, _)
PushAllFrom(fp, s, i) ==
    IF i > Len(s) THEN fp
    ELSE CHOOSE r \in { PushAllFrom(n, s, i + 1) : n \in {push_byte(fp, s[i])} } : TRUE

FreshFingerprint(s) == PushAllFrom(RabinFingerprintNew, s, 1)

\* C5 (fingerprint rolling law): after the pushes of the first window and
\* any number of rolls, the fingerprint's value is that of a fresh
\* fingerprint on which only the last WINDOW_SIZE bytes taken were pushed.
C5_RollingLaw ==
    roll_pos >= WINDOW_SIZE =>
        roll_fp.value =
            FreshFingerprint(SubSeq(roll_data, roll_pos + 1 - WINDOW_SIZE, roll_pos)).value

\* ------------------------------------------------------------------------
\* push_byte and roll_byte called in any order with any bytes on one
\* RabinFingerprint, from RabinFingerprint::new on
\* ------------------------------------------------------------------------

\* Bound of these runs: the calls made
MaxCalls == 4

InitFp ==
    /\ pc = "start"
    /\ disk = <<>>
    /\ paths = <<>>
    /\ idx = 1
    /\ chunk = ChunkNew
    /\ remaining_bytes = <<>>
    /\ last_file = 0
    /\ bases = EmptyMap
    /\ hash_to_path_map = EmptyMap
    /\ path_to_hash_map = EmptyMap
    /\ blobs = EmptyMap
    /\ saved = {}
    /\ has_manifest = FALSE
    /\ manifest = NoManifest
    /\ out = EmptyMap
    /\ restored = EmptyMap
    /\ roll_data = <<>>
    /\ roll_fp = RabinFingerprintNew
    /\ roll_pos = 0
    /\ call = NoCall

\* fingerprint.push_byte(byte); roll_pos counts the calls
FpPush(byte) ==
    /\ roll_pos < MaxCalls
    /\ roll_fp' = push_byte(roll_fp, byte)
    /\ roll_pos' = roll_pos + 1
    /\ UNCHANGED <<roll_data, archive_vars, call>>

\* fingerprint.roll_byte(old_byte, new_byte)
FpRoll(old_byte, new_byte) ==
    /\ roll_pos < MaxCalls
    /\ roll_fp' = roll_byte(roll_fp, old_byte, new_byte)
    /\ roll_pos' = roll_pos + 1
    /\ UNCHANGED <<roll_data, archive_vars, call>>

NextFp ==
    \/ \E byte \in RollBytes : FpPush(byte)
    \/ \E old_byte, new_byte \in RollBytes : FpRoll(old_byte, new_byte)

SpecFp == InitFp /\ [][NextFp]_vars

\* ------------------------------------------------------------------------
\* Chunk::add_file called any number of times on one Chunk, from Chunk::new
\* on, with any file name and any bytes (the empty input and calls on a
\* chunk that stands on a boundary included)
\* ------------------------------------------------------------------------

\* Bounds of these runs: the bytes handed to the chunk in all, and the
\* calls made (each call records one segment)
MaxBuffer == 5
MaxSegments == 2

\* The file names add_file is called with
ChunkFileNames == {1, 2}

InitChunk ==
    /\ pc = "start"
    /\ disk = <<>>
    /\ paths = <<>>
    /\ idx = 1
    /\ chunk = ChunkNew
    /\ remaining_bytes = <<>>
    /\ last_file = 0
    /\ bases = EmptyMap
    /\ hash_to_path_map = EmptyMap
    /\ path_to_hash_map = EmptyMap
    /\ blobs = EmptyMap
    /\ saved = {}
    /\ has_manifest = FALSE
    /\ manifest = NoManifest
    /\ out = EmptyMap
    /\ restored = EmptyMap
    /\ roll_data = <<>>
    /\ roll_fp = RabinFingerprintNew
    /\ roll_pos = 0
    /\ call = NoCall

\* remaining_bytes = chunk.add_file(file, bytes)
CallAddFile(file, bytes) ==
    /\ Len(chunk.buffer) + Len(bytes) <= MaxBuffer
    /\ Len(chunk.base.files) < MaxSegments
    /\ LET r == add_file(chunk, file, bytes)
       IN  /\ chunk' = r.chunk
           /\ remaining_bytes' = r.rest
    /\ UNCHANGED <<pc, disk, paths, idx, last_file, bases, hash_to_path_map,
                   path_to_hash_map, blobs, saved, has_manifest, manifest, out,
                   restored>>
    /\ call' = [chunk |-> chunk, file |-> file, bytes |-> bytes]
    /\ UNCHANGED roll_vars

NextChunk ==
    \E file \in ChunkFileNames, bytes \in ByteSeqsUpTo(MaxBuffer) :
        CallAddFile(file, bytes)

SpecChunk == InitChunk /\ [][NextChunk]_vars

\* ------------------------------------------------------------------------
\* Properties of the archive run and of restores
\* ------------------------------------------------------------------------

ArchiveEnded == pc \in {"done", "panicked"}

\* The bytes one files[p] accounts for: the sum of end - start
RECURSIVE SegmentBytes(_)
SegmentBytes(file_map) ==
    IF file_map = <<>> THEN 0
    ELSE (Head(file_map).value.end - Head(file_map).value.start)
            + SegmentBytes(Tail(file_map))

SeqRange(v) == { v[i] : i \in 1..Len(v) }

\* C1 (round trip): once add_files has run on the paths, it has written its
\* manifest, and every restore_file of an archived path returns normally and
\* leaves an output file whose bytes are the original content.
C1_RoundTrip ==
    ArchiveEnded =>
        /\ pc = "done"
        /\ \A p \in DOMAIN restored \cap DOMAIN disk :
              restored[p] /\ out[p] = disk[p]

\* C2 (whole-file dedup): with two distinct paths of identical content among
\* the inputs, add_files completes, and its manifest has exactly one of the
\* two as a key of files, maps both to the same hash, and lists both under
\* duplicates[that hash].
C2_WholeFileDedup ==
    \A p1, p2 \in DOMAIN disk :
        (p1 # p2 /\ disk[p1] = disk[p2] /\ ArchiveEnded) =>
            /\ pc = "done"
            /\ (p1 \in DOMAIN manifest.files) # (p2 \in DOMAIN manifest.files)
            /\ {p1, p2} \subseteq DOMAIN manifest.hashes
            /\ manifest.hashes[p1] = manifest.hashes[p2]
            /\ manifest.hashes[p1] \in DOMAIN manifest.duplicates
            /\ {p1, p2} \subseteq SeqRange(manifest.duplicates[manifest.hashes[p1]])

\* C3 (manifest resolvability): in an emitted manifest, every path that is a
\* key of hashes and not of files has a duplicates[hashes[p]] entry naming
\* at least one key of files.
C3_Resolvable ==
    has_manifest =>
        \A p \in DOMAIN manifest.hashes \ DOMAIN manifest.files :
            /\ manifest.hashes[p] \in DOMAIN manifest.duplicates
            /\ SeqRange(manifest.duplicates[manifest.hashes[p]])
                    \cap DOMAIN manifest.files # {}

\* C4 (segment coverage): in an emitted manifest, the ranges of files[p] add
\* up to the length of p's content.
C4_SegmentCoverage ==
    has_manifest =>
        \A p \in DOMAIN manifest.files :
            SegmentBytes(manifest.files[p]) = Len(disk[p])

\* C6 (empty input file): an archived path of length 0 is a key of files
\* with a zero-length range, and its restore_file returns normally and leaves
\* an empty output file.
C6_EmptyFile ==
    has_manifest =>
        \A p \in DOMAIN disk :
            disk[p] = <<>> =>
                /\ p \in DOMAIN manifest.files
                /\ \E i \in 1..Len(manifest.files[p]) :
                      manifest.files[p][i].value.start = manifest.files[p][i].value.end
                /\ p \in DOMAIN restored => (restored[p] /\ out[p] = <<>>)

\* C7 (repair on seal): every segment recorded in the restore information
\* carries the chunk id its chunk was sealed with, which is the name of a
\* blob that was passed to save.
C7_RepairOnSeal ==
    \A p \in DOMAIN bases :
        \A b \in 1..Len(bases[p]) :
            \A f \in 1..Len(bases[p][b].files) :
                /\ bases[p][b].files[f].name = to_string(bases[p][b].fingerprint.value)
                /\ bases[p][b].files[f].name \in { s.name : s \in saved }

\* C8 (range within blob): after add_files, every entry of every files[p]
\* names a stored blob and has start <= end <= the length of its payload.
C8_RangeWithinBlob ==
    has_manifest =>
        \A p \in DOMAIN manifest.files :
            \A i \in 1..Len(manifest.files[p]) :
                LET e == manifest.files[p][i]
                IN  /\ e.key \in DOMAIN blobs
                    /\ e.value.start <= e.value.end
                    /\ e.value.end <= Len(blobs[e.key])

\* C9 (blob identity): any two calls of Chunk::save for the same chunk id in
\* one run carry the same buffer.
C9_BlobIdentity ==
    \A s, t \in saved : s.name = t.name => s.buffer = t.buffer

\* C10 (archive completion): add_files does not stop before it has sealed
\* the last chunk, if that holds bytes, and written the manifest.
C10_ArchiveCompletion ==
    ArchiveEnded =>
        /\ has_manifest
        /\ chunk.buffer # <<>> => ChunkFileName(chunk) \in { s.name : s \in saved }

\* The first path, from position i on, of a duplicates list that is a key of
\* files (0 if there is none)
RECURSIVE FirstWithEntry(_, _, _)
FirstWithEntry(files, list, i) ==
    IF i > Len(list) THEN 0
    ELSE IF list[i] \in DOMAIN files THEN list[i]
    ELSE FirstWithEntry(files, list, i + 1)

\* The case of C11 for path p: p is not a key of files, hashes[p] = h, and
\* duplicates[h] lists a key of files
DuplicateCase(p) ==
    /\ has_manifest
    /\ p \notin DOMAIN manifest.files
    /\ p \in DOMAIN manifest.hashes
    /\ manifest.hashes[p] \in DOMAIN manifest.duplicates
    /\ FirstWithEntry(manifest.files, manifest.duplicates[manifest.hashes[p]], 1) # 0

\* C11 (duplicate resolution on restore): whatever the manifest, a
\* restore_file of a path in the duplicate case returns normally and has
\* written the ranges of the segment list of the first path of
\* duplicates[h] that is a key of files.
C11_DuplicateResolution ==
    \A p \in DOMAIN restored :
        DuplicateCase(p) =>
            LET first == FirstWithEntry(manifest.files,
                                        manifest.duplicates[manifest.hashes[p]], 1)
            IN  /\ restored[p]
                /\ out[p] = RestoreLoop(<<>>, manifest.files[first], blobs, 1).bytes

\* C12 (boundary determinism): when add_files has ended on the paths in the
\* order some caller gave them, add_files on the same files with the paths
\* in any order ends the same way, with the same sequence of sealed chunks
\* (ids and bytes), the same blobs, and the same files, hashes and
\* duplicates; and what it yields is what this run has left.
C12_BoundaryDeterminism ==
    (ArchiveEnded /\ restored = EmptyMap) =>
        \E run \in { add_files(disk, paths) } :
            /\ \A order \in PathLists(Len(disk)) : add_files(disk, order) = run
            /\ SeqRange(run.sealed) = saved
            /\ run.panicked = (pc = "panicked")
            /\ run.blobs = blobs
            /\ run.has_manifest = has_manifest
            /\ run.manifest = manifest

\* An archive of at least two paths (so of more than one order), with a
\* duplicate and two sealed chunks, has ended
C12_Witness ==
    /\ pc = "done"
    /\ restored = EmptyMap
    /\ Len(disk) >= 2
    /\ Cardinality(saved) >= 2
    /\ DOMAIN manifest.duplicates # {}

\* The sum of the segment lengths of a chunk's files
RECURSIVE SegmentSum(_)
SegmentSum(files) ==
    IF files = <<>> THEN 0
    ELSE (Head(files).end - Head(files).start) + SegmentSum(Tail(files))

\* C13 (chunk bookkeeping): after every return of add_file, in any sequence
\* of calls from Chunk::new on, current_offset is the length of the buffer,
\* the segments are in order and contiguous from 0 to current_offset, and
\* their lengths add up to current_offset.
C13_Bookkeeping ==
    LET files == chunk.base.files
    IN  /\ chunk.current_offset = Len(chunk.buffer)
        /\ files # <<>> =>
              /\ files[1].start = 0
              /\ files[Len(files)].end = chunk.current_offset
        /\ \A i \in 1..Len(files) : files[i].start <= files[i].end
        /\ \A i \in 1..(Len(files) - 1) : files[i + 1].start = files[i].end
        /\ SegmentSum(files) = chunk.current_offset

\* Two calls have returned, each for bytes of a file of its own, the second
\* one stopped by a boundary with bytes left over
C13_Witness ==
    /\ Len(chunk.base.files) = MaxSegments
    /\ chunk.base.files[1].filename # chunk.base.files[2].filename
    /\ chunk.base.files[1].end > 0
    /\ chunk.base.files[2].end > chunk.base.files[2].start
    /\ AtBoundary(chunk.base.fingerprint)
    /\ remaining_bytes # <<>>

\* A limb pair that is a u64: below 2^64 = 2^24 * Limb * Limb
FitsU64(x) == x[1] >= 0 /\ x[2] >= 0 /\ x[2] < Limb /\ (x[1] \div Limb) < 16777216

\* The intermediates of the calls that can come next on fingerprint fp are
\* u64 values, and pop_byte's subtraction does not go below 0
IntermediatesFit(fp) ==
    \A byte \in RollBytes :
        /\ FitsU64(PushWide(fp, byte))
        /\ FitsU64(PopProduct(fp, byte))
        /\ FitsU64(PopSum(fp))
        /\ ~U64Less(PopSum(fp), ModPrime(PopProduct(fp, byte)))
        /\ FitsU64(PushWide(pop_byte(fp, byte), byte))

\* C14 (fingerprint range and width): after any sequence of push_byte and
\* roll_byte calls with any bytes the value is in [0, PRIME) and base is
\* below PRIME, and every intermediate of the next call is a u64 value; so
\* are the intermediates at the largest value of the range, PRIME - 1.
C14_RangeAndWidth ==
    /\ FitsU64(roll_fp.value)
    /\ U64Less(roll_fp.value, PRIME)
    /\ U64Less(roll_fp.base, PRIME)
    /\ IntermediatesFit(roll_fp)
    /\ IntermediatesFit([roll_fp EXCEPT !.value = U64Sub(PRIME, <<0, 1>>)])

\* Pushes and rolls have been made and the value, reduced modulo PRIME, is
\* in the upper half of the range (at least 2^39)
C14_Witness ==
    /\ roll_pos = MaxCalls
    /\ roll_fp.value[1] >= Limb \div 2

\* The number of bytes of the input after whose push, one by one onto
\* fingerprint fp, the value is first a multiple of CHUNK_MODULUS; all of
\* them if it never is
SplitPoint(fp, bytes) ==
    LET hits == { k \in 1..Len(bytes) :
                    AtBoundary(PushAllFrom(fp, SubSeq(bytes, 1, k), 1)) }
    IN  IF hits = {} THEN Len(bytes)
        ELSE CHOOSE k \in hits : \A j \in hits : k <= j

\* C15 (append split): after every add_file call with non-empty bytes, on
\* the chunk left by any sequence of calls, the buffer has grown by the
\* prefix of the bytes up to the split point, those bytes were pushed onto
\* the fingerprint, one segment was recorded for them after the segments
\* there were, and the bytes after the split point were returned.
C15_AppendSplit ==
    call.bytes # <<>> =>
        LET k == SplitPoint(call.chunk.base.fingerprint, call.bytes)
            files == chunk.base.files
        IN  /\ chunk.buffer = call.chunk.buffer \o SubSeq(call.bytes, 1, k)
            /\ remaining_bytes = SubSeq(call.bytes, k + 1, Len(call.bytes))
            /\ SubSeq(call.bytes, 1, k) \o remaining_bytes = call.bytes
            /\ chunk.base.fingerprint =
                  PushAllFrom(call.chunk.base.fingerprint, SubSeq(call.bytes, 1, k), 1)
            /\ Len(files) = Len(call.chunk.base.files) + 1
            /\ SubSeq(files, 1, Len(call.chunk.base.files)) = call.chunk.base.files
            /\ files[Len(files)].filename = call.file
            /\ files[Len(files)].start = call.chunk.current_offset
            /\ files[Len(files)].end = call.chunk.current_offset + k

\* A call on a chunk that held bytes took more than one byte, stopped on
\* the boundary they made and handed back the bytes it did not take
C15_Witness ==
    /\ call.chunk.buffer # <<>>
    /\ Len(call.bytes) > Len(remaining_bytes) + 1
    /\ Len(chunk.base.files) >= 2
    /\ LET last == chunk.base.files[Len(chunk.base.files)]
       IN  /\ last.start > 0
           /\ last.end > last.start + 1
    /\ AtBoundary(chunk.base.fingerprint)
    /\ remaining_bytes # <<>>

\* C16 (the assertion after the path loop): whenever add_files has left the
\* for loop and stands at assert!(remaining_bytes.is_empty()),
\* remaining_bytes is empty, and so the run never ends in the assertion's
\* panic.
C16_AssertionHolds ==
    /\ (pc = "loop" /\ idx > Len(paths)) => remaining_bytes = <<>>
    /\ pc # "panicked"

\* The segment of path p in a sealed chunk's base
SegmentOf(base, p) == CHOOSE f \in SeqRange(base.files) : f.filename = p

\* C17 (reassembly order): in the emitted manifest, files[p] has one entry
\* for each sealed chunk that p was streamed into (the chunks recorded in
\* bases[p], in the order they were sealed), and the i-th entry holds the
\* range of p's segment in the i-th of them.
C17_ReassemblyOrder ==
    has_manifest =>
        \A p \in DOMAIN manifest.files :
            /\ Len(manifest.files[p]) = Len(bases[p])
            /\ \A i \in 1..Len(manifest.files[p]) :
                  /\ manifest.files[p][i].value.start = SegmentOf(bases[p][i], p).start
                  /\ manifest.files[p][i].value.end = SegmentOf(bases[p][i], p).end

\* Pushed one by one onto fingerprint fp, some byte of the input leaves the
\* value a multiple of CHUNK_MODULUS: add_file stops on a boundary byte
StopsOnBoundary(fp, bytes) ==
    \E k \in 1..Len(bytes) :
        U64DivisibleBy(PushAllFrom(fp, SubSeq(bytes, 1, k), 1).value, CHUNK_MODULUS)

\* The step of C18: in a turn of add_files' while loop (an add_file call on
\* the active chunk with the bytes that remain), the chunk with the bytes
\* taken is sealed (recorded in bases, passed to save, its blob stored) and
\* a fresh chunk takes its place if the call stops on a boundary byte;
\* otherwise nothing is recorded or saved and the chunk stays the active
\* one, holding all the bytes.
SealOnBoundaryStep ==
    (pc = "while" /\ remaining_bytes # <<>>) =>
        LET fp == chunk.base.fingerprint
            k == SplitPoint(fp, remaining_bytes)
            filled == chunk.buffer \o SubSeq(remaining_bytes, 1, k)
            id == to_string(PushAllFrom(fp, SubSeq(remaining_bytes, 1, k), 1).value)
        IN  IF StopsOnBoundary(fp, remaining_bytes)
            THEN /\ chunk' = ChunkNew
                 /\ bases' # bases
                 /\ [name |-> id, buffer |-> filled] \in saved'
                 /\ id \in DOMAIN blobs'
            ELSE /\ chunk'.buffer = filled
                 /\ chunk' # ChunkNew
                 /\ bases' = bases
                 /\ saved' = saved
                 /\ blobs' = blobs

\* Between the calls of add_file in add_files: the active chunk is a fresh
\* one if the last call stopped on a boundary byte (so the next segment
\* starts at offset 0), and otherwise the chunk that call left, its last
\* segment being that call's and the next one continuing after it.
SealOnBoundaryState ==
    (pc \in {"loop", "while"} /\ call # NoCall) =>
        IF StopsOnBoundary(call.chunk.base.fingerprint, call.bytes)
        THEN /\ chunk = ChunkNew
             /\ chunk.current_offset = 0
        ELSE LET files == chunk.base.files
             IN  /\ chunk.buffer = call.chunk.buffer \o call.bytes
                 /\ Len(files) = Len(call.chunk.base.files) + 1
                 /\ files[Len(files)].filename = call.file
                 /\ files[Len(files)].start = Len(call.chunk.buffer)
                 /\ files[Len(files)].end = chunk.current_offset

\* C18 (seal exactly on boundary): during add_files the active chunk is
\* sealed and replaced by a fresh chunk after a call of add_file if and
\* only if that call stopped on a boundary byte.
C18_SealOnBoundary == [][SealOnBoundaryStep]_vars /\ []SealOnBoundaryState

\* A file's last byte was a boundary byte, its chunk was sealed with all
\* the file's bytes, and the first call for the next file that is not a
\* duplicate was made on a fresh chunk, found no boundary and left its
\* segment at offset 0; a path after it goes on in the same chunk.
C18_Witness ==
    /\ pc = "loop"
    /\ idx <= Len(paths)
    /\ last_file > 1
    /\ call.file = last_file
    /\ call.chunk = ChunkNew
    /\ call.bytes = disk[call.file]
    /\ ~StopsOnBoundary(call.chunk.base.fingerprint, call.bytes)
    /\ \E s \in saved : s.buffer = disk[call.file - 1]
    /\ chunk.base.files[1].filename = call.file
    /\ chunk.base.files[1].start = 0

\* Path p is neither a key of the manifest's files nor resolvable through
\* hashes and duplicates
Unresolvable(p) ==
    /\ has_manifest
    /\ p \notin DOMAIN manifest.files
    /\ ~DuplicateCase(p)

\* C19 (failed restore leaves the output untouched): a restore_file of an
\* unresolvable path fails, and leaves no file for the path in the restore
\* directory (which held none before the restores).
C19_FailedRestoreUntouched ==
    \A p \in DOMAIN restored :
        Unresolvable(p) => (~restored[p] /\ p \notin DOMAIN out)
====
